---- MODULE Spec2Model ----
(***************************************************************************)
(* The npmx-digest pipeline: time-window selection, the GitHub and Bluesky *)
(* event fetchers, topic clustering with the Bluesky boost, the weighted   *)
(* hero-topic draw, title generation and the post assembler.               *)
(*                                                                         *)
(* Instants are whole minutes since 00:00 UTC of day 0.  A text is the      *)
(* sequence of its characters.                                             *)
(*                                                                         *)
(* A relevance score is a JavaScript number.  Numbers are binary floating  *)
(* point: a sum, difference or product is rounded to the nearest number    *)
(* the significand holds, ties to the even significand.  The model keeps   *)
(* that arithmetic with a significand of Precision bits in place of 53 and *)
(* scores that are multiples of 2^-ScoreBits points; a score is counted in *)
(* those steps, so that 10 points are 10 * PerPoint.                       *)
(***************************************************************************)
EXTENDS Integers, Sequences, FiniteSets, TLC

VARIABLES
    pc,                 \* position of run() / of the function under study
    env,                \* names of the environment variables that are set
    now,                \* new Date() at the start of run()
    nearestMark,        \* the selected mark
    startTime,          \* nearestMark - windowSize
    requests,           \* network requests issued so far, in order
    ghState,            \* fetchGitHubEvents: idle / waiting / done / rejected
    ghResponse,         \* what the search endpoint answered
    ghEvents,           \* its result
    bsState,            \* fetchBlueskyEvents: idle / resolving / paging / done
    bsEvents,           \* its events array
    bsAnswer,           \* how its last request was answered ("empty": OK
                        \* with a page of no items)
    cursor,             \* its pagination cursor (0 = undefined)
    reachedBeforeStart, \* its loop flag
    asked,              \* cursors requested from the author feed, in order
    olderAt,            \* number of the first page holding an item older than
                        \* the window start (0: none so far)
    probes,             \* link-liveness variant: the candidates, each with the
                        \* outcome of its probe
    completed,          \* indices of the probes in the order they completed
    allEvents,          \* the list handed to generateSmartDigest
    topics,             \* result of generateSmartDigest
    digestOutcome,      \* how generateSmartDigest ended
    modelResponse,      \* what the inference endpoint answered to clustering
    heroTopic,          \* index in topics of the topic pickWeightedTopic chose
    titleResponse,      \* what the inference endpoint answered to the title
    catchyTitle,        \* result of generateCatchyTitle
    postData,           \* the assembled post
    validated,          \* PostSchema.parse(postData) has returned
    files,              \* POST_DIR: slug -> what the file holds
    writes,             \* number of writeFile calls of this run
    written,            \* the files writeFile has opened, over all runs, in
                        \* order: the mark of the run and the key of the file
    exitCode            \* process exit code (-1 while running)

vars == <<pc, env, now, nearestMark, startTime, requests, ghState, ghResponse,
          ghEvents, bsState, bsEvents, bsAnswer, cursor, reachedBeforeStart, asked,
          olderAt, probes, completed, allEvents, topics,
          digestOutcome, modelResponse, heroTopic, titleResponse, catchyTitle,
          postData,
          validated, files, writes, written, exitCode>>

----------------------------------------------------------------------------
(* Bounds of the model *)

MaxDay == 2             \* now ranges over days 1..MaxDay
MaxTopics == 3          \* topics in one model response
MaxPages == 2           \* pages the Bluesky server holds
MaxPageLen == 2         \* items per page
MaxItems == 1           \* items in one GitHub search response
Precision == 4          \* bits of the significand of a number
ScoreBits == 1          \* fraction bits of a relevance score

----------------------------------------------------------------------------
(* Time *)

MinutesPerHour == 60
MinutesPerDay == 24 * MinutesPerHour

undefined == -1

marks == <<6, 14, 22>>
\* candidates of the current day alone
dayOffsetsToday == <<0>>

dayOffsets == <<-1, 0, 1>>
windowSize == 8 * MinutesPerHour
\* a threshold of half an hour
snapWindowHalfHour == MinutesPerHour \div 2

snapWindow == 2 * MinutesPerHour

getUTCDate(t) == t \div MinutesPerDay
getUTCHours(t) == (t % MinutesPerDay) \div MinutesPerHour

\* d = new Date(t); d.setUTCDate(d.getUTCDate() + dayOffset); d.setUTCHours(hour, 0, 0, 0)
MarkOn(t, dayOffset, hour) ==
    (getUTCDate(t) + dayOffset) * MinutesPerDay + hour * MinutesPerHour

candidates(t) ==
    [i \in 1..(Len(dayOffsets) * Len(marks)) |->
        MarkOn(t, dayOffsets[((i - 1) \div Len(marks)) + 1],
                  marks[((i - 1) % Len(marks)) + 1])]

\* Array.prototype.sort (stable): the indices of keys in the order a
\* comparator (a, b) => key(a) - key(b) leaves them.
RECURSIVE Order(_)
Order(keys) ==
    IF keys = <<>> THEN <<>>
    ELSE LET n == Len(keys)
             rest == Order(SubSeq(keys, 1, n - 1))
             pos == Cardinality({i \in 1..(n - 1) : keys[i] <= keys[n]})
         IN  SubSeq(rest, 1, pos) \o <<n>> \o SubSeq(rest, pos + 1, n - 1)

\* s sorted by the comparator (a, b) => key(a) - key(b)
SortAscending(s, keys) == [i \in 1..Len(s) |-> s[Order(keys)[i]]]

\* s sorted by the comparator (a, b) => key(b) - key(a)
SortDescending(s, keys) ==
    SortAscending(s, [i \in 1..Len(keys) |-> 0 - keys[i]])

First(s) == IF s = <<>> THEN undefined ELSE s[1]

\* the filter with > for >=: a mark at now itself is no future mark
futureMarkAfter(t) ==
    LET future == SelectSeq(candidates(t), LAMBDA d : d > t)
    IN  First(SortAscending(future, future))

futureMark(t) ==
    LET future == SelectSeq(candidates(t), LAMBDA d : d >= t)
    IN  First(SortAscending(future, future))

pastMark(t) ==
    LET past == SelectSeq(candidates(t), LAMBDA d : d < t)
    IN  First(SortDescending(past, past))

diffToFuture(t) == futureMark(t) - t

\* the comparison with < for <=
SnapsToFutureStrict(t) == diffToFuture(t) < snapWindow

SnapsToFuture(t) == diffToFuture(t) <= snapWindow

selectMark(t) == IF SnapsToFuture(t) THEN futureMark(t) ELSE pastMark(t)

----------------------------------------------------------------------------
(* Numbers *)

RECURSIVE Pow2(_)
Pow2(n) == IF n = 0 THEN 1 ELSE 2 * Pow2(n - 1)

RECURSIVE BitLength(_)
BitLength(n) == IF n = 0 THEN 0 ELSE 1 + BitLength(n \div 2)

\* the number nearest to n that a significand of Precision bits holds, the
\* one with the even significand when two are equally near
Round(n) ==
    IF BitLength(n) <= Precision THEN n
    ELSE LET step == Pow2(BitLength(n) - Precision)
             q == n \div step
             rest == n % step
         IN  IF 2 * rest > step \/ (2 * rest = step /\ q % 2 = 1)
             THEN (q + 1) * step
             ELSE q * step

\* score steps in one point
PerPoint == Pow2(ScoreBits)

\* Math.random() is a multiple of 2^-Precision: the draw is counted in units,
\* Unit of them to one score step
Unit == Pow2(Precision)

----------------------------------------------------------------------------
(* Texts *)

\* the canonicalisation of the flag i of a regular expression, over the
\* letters of the model
Lower(c) ==
    CASE c = "N" -> "n"
      [] c = "P" -> "p"
      [] c = "M" -> "m"
      [] c = "X" -> "x"
      [] OTHER -> c

Brand == <<"n", "p", "m", "x">>

\* /npmx/i matches at position i
BrandAt(text, i) ==
    /\ i + Len(Brand) - 1 <= Len(text)
    /\ \A k \in 1..Len(Brand) : Lower(text[i + k - 1]) = Brand[k]

\* the text returned as it is
sanitizeBrandVerbatim(text) == text

\* text.replace(/npmx/gi, "npmx"): the matches from left to right, none
\* overlapping another
RECURSIVE sanitizeBrand(_)
sanitizeBrand(text) ==
    IF text = <<>> THEN <<>>
    ELSE IF BrandAt(text, 1)
    THEN Brand \o sanitizeBrand(SubSeq(text, Len(Brand) + 1, Len(text)))
    ELSE <<text[1]>> \o sanitizeBrand(Tail(text))

\* String.prototype.trim
RECURSIVE trim(_)
trim(text) ==
    IF text = <<>> THEN <<>>
    ELSE IF text[1] = " " THEN trim(Tail(text))
    ELSE IF text[Len(text)] = " " THEN trim(SubSeq(text, 1, Len(text) - 1))
    ELSE text

\* String.prototype.includes
includes(text, part) ==
    \E i \in 1..(Len(text) - Len(part) + 1) :
        SubSeq(text, i, i + Len(part) - 1) = part

----------------------------------------------------------------------------
(* Schemas (src/lib/schema.ts) *)

MinScore == 0
MaxScore == 10 * PerPoint
BoostCap == 10 * PerPoint
BlueskyBoost == 1 * PerPoint

WellFormedUrl == "https://npmx.dev/1"
MalformedUrl == "not a url"

github == [platform |-> "github", url |-> WellFormedUrl]
bluesky == [platform |-> "bluesky", url |-> WellFormedUrl]
blueskyBadUrl == [platform |-> "bluesky", url |-> MalformedUrl]

\* z.string().url()
IsUrl(u) == u = WellFormedUrl

SourceSchema(s) == IsUrl(s.url)

TopicSchema(t) ==
    /\ t.relevanceScore >= MinScore
    /\ t.relevanceScore <= MaxScore
    /\ \A i \in 1..Len(t.sources) : SourceSchema(t.sources[i])

PostTypes == {"daily", "nightly"}

PostSchema(p) ==
    /\ p.type \in PostTypes
    /\ \A i \in 1..Len(p.topics) : TopicSchema(p.topics[i])

----------------------------------------------------------------------------
(* What the inference endpoint may answer *)

\* scores below, at and above the ends of the range, and half a point
RawScores ==
    {MinScore - 1, MinScore, PerPoint \div 2, MaxScore - PerPoint, MaxScore,
     MaxScore + PerPoint}
SourceLists == {<<>>, <<github>>, <<github, bluesky>>, <<blueskyBadUrl>>}
TopicTitles == <<<<"t", "1">>, <<"t", "2">>, <<"t", "3">>, <<"t", "4">>, <<"t", "5">>>>

SeqsUpTo(S, n) == UNION {[1..k -> S] : k \in 0..n}

\* the i-th topic of a response carries the i-th title
RawTopicLists(n) ==
    {[i \in 1..Len(l) |->
        [title |-> TopicTitles[i], relevanceScore |-> l[i][1], sources |-> l[i][2]]] :
     l \in SeqsUpTo(RawScores \X SourceLists, n)}

NoResponse == [kind |-> "none", topics |-> <<>>]

Failures ==
    {[kind |-> k, topics |-> <<>>] : k \in {"neterr", "nonok", "badjson", "notopics"}}

Responses(n) == Failures \cup {[kind |-> "topics", topics |-> l] : l \in RawTopicLists(n)}

\* the answers a whole run is checked over: up to two topics with a score
\* below the range or at one of its ends
RunScores == {MinScore - 1, MinScore, MaxScore}

RunResponses ==
    Failures \cup
    {[kind |-> "topics",
      topics |-> [i \in 1..Len(l) |->
                    [title |-> TopicTitles[i], relevanceScore |-> l[i][1],
                     sources |-> l[i][2]]]] :
     l \in SeqsUpTo(RunScores \X SourceLists, 2)}

----------------------------------------------------------------------------
(* generateSmartDigest (src/lib/schema.ts) *)

Min(a, b) == IF a < b THEN a ELSE b

hasBluesky(t) == \E i \in 1..Len(t.sources) : t.sources[i].platform = "bluesky"

\* the boost without Math.min
boostedScoreUncapped(t) ==
    IF hasBluesky(t) THEN Round(t.relevanceScore + BlueskyBoost)
    ELSE t.relevanceScore

boostedScore(t) ==
    IF hasBluesky(t) THEN Min(BoostCap, Round(t.relevanceScore + BlueskyBoost))
    ELSE t.relevanceScore

boostTopic(t) ==
    [t EXCEPT !.title = sanitizeBrand(@), !.relevanceScore = boostedScore(t)]

\* the comparator turned round: a.relevanceScore - b.relevanceScore
sortTopicsAscending(ts) ==
    SortAscending(ts, [i \in 1..Len(ts) |-> ts[i].relevanceScore])

sortTopics(ts) == SortDescending(ts, [i \in 1..Len(ts) |-> ts[i].relevanceScore])

\* parsed.topics.map(...) throws at the first topic TopicSchema rejects
AllValid(raw) == \A i \in 1..Len(raw) : TopicSchema(raw[i])

\* the function without its catch block: a failure rejects the promise
generateSmartDigestUncaught(events, environment, resp) ==
    IF events = <<>>
    THEN [outcome |-> "noevents", topics |-> <<>>, requested |-> FALSE]
    ELSE IF "MODELS_TOKEN" \notin environment
    THEN [outcome |-> "threw", topics |-> <<>>, requested |-> FALSE]
    ELSE IF resp.kind # "topics" \/ ~AllValid(resp.topics)
    THEN [outcome |-> "threw", topics |-> <<>>, requested |-> TRUE]
    ELSE [outcome |-> "ok",
          topics |-> sortTopics([i \in 1..Len(resp.topics) |-> boostTopic(resp.topics[i])]),
          requested |-> TRUE]

\* the function keeping the topics that pass TopicSchema
generateSmartDigestValidOnly(events, environment, resp) ==
    IF events = <<>>
    THEN [outcome |-> "noevents", topics |-> <<>>, requested |-> FALSE]
    ELSE IF "MODELS_TOKEN" \notin environment
    THEN [outcome |-> "failed", topics |-> <<>>, requested |-> FALSE]
    ELSE IF resp.kind # "topics"
    THEN [outcome |-> "failed", topics |-> <<>>, requested |-> TRUE]
    ELSE LET valid == SelectSeq(resp.topics, TopicSchema)
         IN  [outcome |-> "ok",
              topics |-> sortTopics([i \in 1..Len(valid) |-> boostTopic(valid[i])]),
              requested |-> TRUE]

\* outcome: "noevents" (line 171), "failed" (the catch block), "ok"; a promise
\* that rejected would be "threw"
generateSmartDigest(events, environment, resp) ==
    IF events = <<>>
    THEN [outcome |-> "noevents", topics |-> <<>>, requested |-> FALSE]
    ELSE IF "MODELS_TOKEN" \notin environment
    THEN [outcome |-> "failed", topics |-> <<>>, requested |-> FALSE]
    ELSE IF resp.kind # "topics" \/ ~AllValid(resp.topics)
    THEN [outcome |-> "failed", topics |-> <<>>, requested |-> TRUE]
    ELSE [outcome |-> "ok",
          topics |-> sortTopics([i \in 1..Len(resp.topics) |-> boostTopic(resp.topics[i])]),
          requested |-> TRUE]

----------------------------------------------------------------------------
(* generateSmartDigest (src/lib/events.ts): the boost decided from the text *)

\* the title of the Bluesky event of the model, shorter than 20 characters
PostTitle == <<"n", "p", "m", "x", " ", "1">>

\* summaries the model may write: one that quotes the post, one that does not
Summaries == {<<"n", "e", "w", ":", " ", "n", "p", "m", "x", " ", "1">>, <<"f", "i", "x", "e", "s">>}

\* e.title.substring(0, 20)
substring20(text) == SubSeq(text, 1, Min(20, Len(text)))

\* events.some((e) => e.source === "bluesky" &&
\*                    t.summary.includes(e.title.substring(0, 20)))
quotesBluesky(t, events) ==
    \E i \in 1..Len(events) :
        /\ events[i].source = "bluesky"
        /\ includes(t.summary, substring20(events[i].title))

boostQuoting(t, events) ==
    [t EXCEPT !.title = sanitizeBrand(@), !.summary = sanitizeBrand(@),
              !.relevanceScore =
        IF quotesBluesky(t, events)
        THEN Min(BoostCap, Round(t.relevanceScore + BlueskyBoost))
        ELSE t.relevanceScore]

\* getRequiredEnv("GITHUB_TOKEN") stands before the try block; a non-OK
\* answer skips to return []
generateSmartDigestQuoting(events, environment, resp) ==
    IF "GITHUB_TOKEN" \notin environment
    THEN [outcome |-> "threw", topics |-> <<>>, requested |-> FALSE]
    ELSE IF events = <<>>
    THEN [outcome |-> "noevents", topics |-> <<>>, requested |-> FALSE]
    ELSE IF resp.kind # "topics" \/ ~AllValid(resp.topics)
    THEN [outcome |-> "failed", topics |-> <<>>, requested |-> TRUE]
    ELSE [outcome |-> "ok",
          topics |-> sortTopics([i \in 1..Len(resp.topics) |->
                                    boostQuoting(resp.topics[i], events)]),
          requested |-> TRUE]

----------------------------------------------------------------------------
(* pickWeightedTopic (scripts/generate-digest.ts) *)

\* topics.reduce((sum, t) => sum + t.relevanceScore, 0)
RECURSIVE SumScores(_, _)
SumScores(ts, sum) ==
    IF ts = <<>> THEN sum
    ELSE SumScores(Tail(ts), Round(sum + ts[1].relevanceScore))

totalWeight(ts) == SumScores(ts, 0)

\* the values of Math.random(), in units
Draws == 0..(Unit - 1)

\* the loop falling out to the last topic instead of the first
RECURSIVE WalkTopicsToLast(_, _, _)
WalkTopicsToLast(ts, i, random) ==
    IF i > Len(ts) THEN Len(ts)
    ELSE IF random < ts[i].relevanceScore * Unit THEN i
    ELSE WalkTopicsToLast(ts, i + 1, Round(random - ts[i].relevanceScore * Unit))

\* the index of the topic the loop returns; falling out of it returns
\* topics[0].  random is in units.
RECURSIVE WalkTopics(_, _, _)
WalkTopics(ts, i, random) ==
    IF i > Len(ts) THEN 1
    ELSE IF random < ts[i].relevanceScore * Unit THEN i
    ELSE WalkTopics(ts, i + 1, Round(random - ts[i].relevanceScore * Unit))

\* draw: the value of Math.random(), in units
pickWeightedTopic(ts, draw) == WalkTopics(ts, 1, Round(draw * totalWeight(ts)))

----------------------------------------------------------------------------
(* fetchGitHubEvents(start, end) (scripts/backfill.ts) *)

GitHubEvent(ts) == [source |-> "github", timestamp |-> ts]
BlueskyEvent(ts) == [source |-> "bluesky", timestamp |-> ts]

\* what the search endpoint may answer: closed_at of each item, or a failure
GitHubResponses(stamps) ==
    {[kind |-> k, items |-> <<>>] : k \in {"neterr", "nonok", "badjson"}}
    \cup {[kind |-> "ok", items |-> l] : l \in SeqsUpTo(stamps, MaxItems)}

NoAnswer == [kind |-> "none", items |-> <<>>]

\* the function without its try/catch
fetchGitHubEventsUncaught(resp) ==
    IF resp.kind = "ok"
    THEN [status |-> "fulfilled",
          events |-> [i \in 1..Len(resp.items) |-> GitHubEvent(resp.items[i])]]
    ELSE IF resp.kind = "nonok"
    THEN [status |-> "fulfilled", events |-> <<>>]
    ELSE [status |-> "rejected", events |-> <<>>]

\* how the promise settles once the search request is answered: the try block
\* catches a failed fetch and a body that is no JSON, and skips a non-OK answer
fetchGitHubEvents(resp) ==
    IF resp.kind = "ok"
    THEN [status |-> "fulfilled",
          events |-> [i \in 1..Len(resp.items) |-> GitHubEvent(resp.items[i])]]
    ELSE [status |-> "fulfilled", events |-> <<>>]

----------------------------------------------------------------------------
(* fetchBlueskyEvents(start, end) (scripts/backfill.ts) *)

\* the loop skipping an older item without setting the flag
RECURSIVE scanPageNoFlag(_, _, _, _)
scanPageNoFlag(page, start, end, acc) ==
    IF page = <<>> THEN acc
    ELSE LET itemDate == page[1]
         IN  IF itemDate < start
             THEN scanPageNoFlag(Tail(page), start, end, acc)
             ELSE IF itemDate <= end
             THEN scanPageNoFlag(Tail(page), start, end,
                                 [acc EXCEPT !.events = Append(@, BlueskyEvent(itemDate))])
             ELSE scanPageNoFlag(Tail(page), start, end, acc)

\* the for loop over one page: acc = [events, reachedBeforeStart]
RECURSIVE scanPage(_, _, _, _)
scanPage(page, start, end, acc) ==
    IF page = <<>> THEN acc
    ELSE LET itemDate == page[1]
         IN  IF itemDate < start
             THEN scanPage(Tail(page), start, end,
                           [acc EXCEPT !.reachedBeforeStart = TRUE])
             ELSE IF itemDate <= end
             THEN scanPage(Tail(page), start, end,
                           [acc EXCEPT !.events = Append(@, BlueskyEvent(itemDate))])
             ELSE scanPage(Tail(page), start, end, acc)

\* the loop without the break on an empty page
loopsAgainOnEmpty(page, nextCursor, reached) ==
    /\ nextCursor # 0
    /\ ~reached

\* whether the while loop goes round again after this page
loopsAgain(page, nextCursor, reached) ==
    /\ page # <<>>
    /\ nextCursor # 0
    /\ ~reached

----------------------------------------------------------------------------
(* fetchBlueskyEvents(since) (src/lib) *)

\* feed.reduce(...): the items of the page that are not older than since
posts(feed, since) ==
    LET recent == SelectSeq(feed, LAMBDA timestamp : timestamp >= since)
    IN  [i \in 1..Len(recent) |-> BlueskyEvent(recent[i])]

----------------------------------------------------------------------------
(* The link-liveness filter (src/lib/events.ts) *)

\* how a HEAD request may end
ProbeOutcomes == {"ok", "nonok", "timeout", "neterr"}

\* the probe counting every answer as success
isUrlReachableAnyStatus(outcome) == outcome \in {"ok", "nonok"}

\* response.ok, or false from the catch block
isUrlReachable(outcome) == outcome = "ok"

\* reachabilityResults.filter((r) => r.isAlive).map((r) => r.event)
aliveEvents(results) ==
    LET alive == SelectSeq(results, LAMBDA r : isUrlReachable(r.outcome))
    IN  [i \in 1..Len(alive) |-> alive[i].event]

----------------------------------------------------------------------------
(* getPostType and the post (scripts/generate-digest.ts) *)

\* the buckets applied to the UTC hour itself
getPostTypeNoSkew(date) ==
    LET hour == getUTCHours(date)
    IN  IF hour >= 5 /\ hour < 13 THEN "daily"
        ELSE IF hour >= 13 /\ hour < 21 THEN "midday"
        ELSE "nightly"

getPostType(date) ==
    LET hour == getUTCHours(date) + 1
    IN  IF hour >= 5 /\ hour < 13 THEN "daily"
        ELSE IF hour >= 13 /\ hour < 21 THEN "midday"
        ELSE "nightly"

\* the key without the type: `${dateStr}`
slugOfDateOnly(mark) == <<getUTCDate(mark), "">>

\* `${dateStr}-${type}`
slugOf(mark) == <<getUTCDate(mark), getPostType(mark)>>

NoPost == [title |-> <<>>, date |-> undefined, type |-> "", topics |-> <<>>]

\* what a file holds that writeFile opened and did not finish: a prefix of
\* the JSON text, which is no post
Truncated == NoPost

ModelHeadline == <<"n", "e", "w", "s">>

\* data.choices[0].message.content of the title request: headlines with the
\* project name in several cases, with and without blanks around them
Headlines == {ModelHeadline, <<" ", "N", "P", "M", "X", " ", "n", "P", "m", "x", " ">>}

NoTitle == [kind |-> "none", content |-> <<>>]

\* what the inference endpoint may answer to the title request
TitleResponses ==
    {[kind |-> k, content |-> <<>>] : k \in {"nonok", "neterr"}}
    \cup {[kind |-> "ok", content |-> h] : h \in Headlines}

----------------------------------------------------------------------------
(* run() (scripts/generate-digest.ts), one action per step *)

windowVars == <<now, nearestMark, startTime>>
ghVars == <<ghState, ghResponse, ghEvents>>
probeVars == <<probes, completed>>
bsVars == <<bsState, bsEvents, bsAnswer, cursor, reachedBeforeStart, asked, olderAt,
            probes, completed>>
digestVars == <<allEvents, topics, digestOutcome, modelResponse>>
postVars == <<titleResponse, catchyTitle, postData, validated, files, writes,
              written>>

\* lines 62-92: the marks around now, the snap rule, the window
SelectWindow ==
    /\ pc = "start"
    /\ IF futureMark(now) = undefined \/ pastMark(now) = undefined
       THEN /\ pc' = "done"
            /\ exitCode' = 1
            /\ UNCHANGED <<nearestMark, startTime>>
       ELSE /\ nearestMark' = selectMark(now)
            /\ startTime' = selectMark(now) - windowSize
            /\ pc' = "fetch"
            /\ UNCHANGED exitCode
    /\ UNCHANGED <<env, now, requests, ghVars, bsVars, digestVars, heroTopic, postVars>>

\* lines 102-106: the argument list of Promise.all is evaluated left to right;
\* each fetcher runs up to its first await.  A missing GITHUB_TOKEN rejects
\* the first promise, and the rejection is handled after the list is built.
StartFetchers ==
    /\ pc = "fetch"
    /\ IF "GITHUB_TOKEN" \in env
       THEN /\ ghState' = "waiting"
            /\ requests' = requests \o <<"github.search", "bluesky.resolveHandle">>
            /\ pc' = "await"
       ELSE /\ ghState' = "rejected"
            /\ requests' = Append(requests, "bluesky.resolveHandle")
            /\ pc' = "catch"
    /\ bsState' = "resolving"
    /\ UNCHANGED <<env, windowVars, ghResponse, ghEvents, bsEvents, bsAnswer, cursor,
                   reachedBeforeStart, asked, olderAt, probeVars, digestVars, heroTopic,
                   postVars, exitCode>>

\* the answer to the search request; stamps: the closed_at values it may carry
GitHubResponds(stamps) ==
    /\ pc = "await"
    /\ ghState = "waiting"
    /\ \E resp \in GitHubResponses(stamps) :
           LET settled == fetchGitHubEvents(resp)
           IN  /\ ghResponse' = resp
               /\ IF settled.status = "fulfilled"
                  THEN /\ ghEvents' = settled.events
                       /\ ghState' = "done"
                       /\ UNCHANGED pc
                  ELSE /\ ghState' = "rejected"
                       /\ pc' = "catch"
                       /\ UNCHANGED ghEvents
    /\ UNCHANGED <<env, windowVars, requests, bsVars, digestVars, heroTopic,
                   postVars, exitCode>>

\* the answer to resolveHandle; on success the first page is requested
BlueskyResolves ==
    /\ pc = "await"
    /\ bsState = "resolving"
    /\ \E kind \in {"ok", "nonok", "neterr"} :
           /\ bsAnswer' = kind
           /\ IF kind = "ok"
              THEN /\ bsState' = "paging"
                   /\ requests' = Append(requests, "bluesky.getAuthorFeed")
                   /\ asked' = Append(asked, cursor)
              ELSE /\ bsState' = "done"
                   /\ UNCHANGED <<requests, asked>>
    /\ UNCHANGED <<pc, env, windowVars, ghVars, bsEvents, cursor, reachedBeforeStart,
                   olderAt, probeVars, digestVars, heroTopic, postVars, exitCode>>

\* what getAuthorFeed may answer to the request number n: a page of at most
\* MaxPageLen items and a cursor (0: none); the server holds MaxPages pages
FeedResponses(stamps, n) ==
    {[kind |-> k, feed |-> <<>>, cursor |-> 0] : k \in {"nonok", "neterr"}}
    \cup {[kind |-> "ok", feed |-> page, cursor |-> c] :
            page \in SeqsUpTo(stamps, MaxPageLen),
            c \in {0} \cup (IF n < MaxPages THEN {n} ELSE {})}

\* one round of the while loop, from the answer to a page request up to the
\* next request or the return
BlueskyPage(stamps) ==
    /\ pc = "await"
    /\ bsState = "paging"
    /\ \E resp \in FeedResponses(stamps, Len(asked)) :
        /\ bsAnswer' = IF resp.kind = "ok" /\ Len(resp.feed) = 0
                       THEN "empty"
                       ELSE resp.kind
        /\ IF resp.kind # "ok"
           THEN /\ bsState' = "done"
                /\ UNCHANGED <<bsEvents, cursor, reachedBeforeStart, asked, olderAt,
                               requests>>
           ELSE LET acc == scanPage(resp.feed, startTime, nearestMark,
                                    [events |-> bsEvents,
                                     reachedBeforeStart |-> reachedBeforeStart])
                IN  /\ cursor' = resp.cursor
                    /\ bsEvents' = acc.events
                    /\ reachedBeforeStart' = acc.reachedBeforeStart
                    /\ olderAt' =
                         IF olderAt = 0
                            /\ \E i \in 1..Len(resp.feed) : resp.feed[i] < startTime
                         THEN Len(asked)
                         ELSE olderAt
                    /\ IF loopsAgain(resp.feed, resp.cursor, acc.reachedBeforeStart)
                       THEN /\ requests' = Append(requests, "bluesky.getAuthorFeed")
                            /\ asked' = Append(asked, resp.cursor)
                            /\ UNCHANGED bsState
                       ELSE /\ bsState' = "done"
                            /\ UNCHANGED <<requests, asked>>
    /\ UNCHANGED <<pc, env, windowVars, ghVars, probeVars, digestVars, heroTopic,
                   postVars, exitCode>>

\* fetchBlueskyEvents(since) of src/lib, called as
\* fetchBlueskyEvents(startTime, nearestMark): the answer to its one feed
\* request.  The function has no second parameter.
BlueskyFeed(stamps) ==
    /\ pc = "await"
    /\ bsState = "paging"
    /\ \E resp \in FeedResponses(stamps, MaxPages) :
           /\ bsAnswer' = resp.kind
           /\ bsEvents' = IF resp.kind = "ok"
                          THEN bsEvents \o posts(resp.feed, startTime)
                          ELSE bsEvents
    /\ bsState' = "done"
    /\ UNCHANGED <<pc, env, windowVars, requests, ghVars, cursor, reachedBeforeStart,
                   asked, olderAt, probeVars, digestVars, heroTopic, postVars,
                   exitCode>>

\* fetchBlueskyEvents(since) of src/lib/events.ts: the answer to its feed
\* request.  Promise.all starts one probe for each candidate; with no
\* candidate it resolves at once.
BlueskyCandidates(stamps) ==
    /\ pc = "await"
    /\ bsState = "paging"
    /\ \E resp \in FeedResponses(stamps, MaxPages) :
           LET found == IF resp.kind = "ok" THEN posts(resp.feed, startTime) ELSE <<>>
           IN  /\ bsAnswer' = resp.kind
               /\ probes' = [i \in 1..Len(found) |->
                                [event |-> found[i], outcome |-> "pending"]]
               /\ requests' = requests \o [i \in 1..Len(found) |-> "HEAD"]
               /\ bsState' = IF found = <<>> THEN "done" ELSE "probing"
    /\ UNCHANGED <<pc, env, windowVars, ghVars, bsEvents, cursor, reachedBeforeStart,
                   asked, olderAt, completed, digestVars, heroTopic, postVars,
                   exitCode>>

\* one probe completes; the last one to complete resolves Promise.all, and the
\* fetcher filters the results and returns
ProbeSettles ==
    /\ pc = "await"
    /\ bsState = "probing"
    /\ \E i \in 1..Len(probes), outcome \in ProbeOutcomes :
           /\ probes[i].outcome = "pending"
           /\ LET results == [probes EXCEPT ![i].outcome = outcome]
              IN  /\ probes' = results
                  /\ completed' = Append(completed, i)
                  /\ IF \A k \in 1..Len(results) : results[k].outcome # "pending"
                     THEN /\ bsEvents' = bsEvents \o aliveEvents(results)
                          /\ bsState' = "done"
                     ELSE UNCHANGED <<bsEvents, bsState>>
    /\ UNCHANGED <<pc, env, windowVars, requests, ghVars, bsAnswer, cursor,
                   reachedBeforeStart, asked, olderAt, digestVars, heroTopic,
                   postVars, exitCode>>

\* [...bs, ...gh]
concatBlueskyFirst(gh, bs) == bs \o gh

\* line 108: [...gh, ...bs]
concat(gh, bs) == gh \o bs

\* lines 108-109: both fetchers have completed; R: what the model may answer
Cluster(R) ==
    /\ pc = "await"
    /\ ghState = "done"
    /\ bsState = "done"
    /\ LET events == concat(ghEvents, bsEvents)
           asks == generateSmartDigest(events, env, NoResponse).requested
       IN  \E resp \in (IF asks THEN R ELSE {NoResponse}) :
              LET d == generateSmartDigest(events, env, resp)
              IN  /\ allEvents' = events
                  /\ topics' = d.topics
                  /\ digestOutcome' = d.outcome
                  /\ modelResponse' = resp
                  /\ requests' = IF d.requested
                                 THEN Append(requests, "inference")
                                 ELSE requests
                  /\ pc' = IF d.outcome = "threw" THEN "catch" ELSE "clustered"
    /\ UNCHANGED <<env, windowVars, ghVars, bsVars, heroTopic, postVars, exitCode>>

\* the same step with generateSmartDigest of src/lib/events.ts
ClusterQuoting(R) ==
    /\ pc = "await"
    /\ ghState = "done"
    /\ bsState = "done"
    /\ LET events == concat(ghEvents, bsEvents)
           asks == generateSmartDigestQuoting(events, env, NoResponse).requested
       IN  \E resp \in (IF asks THEN R ELSE {NoResponse}) :
              LET d == generateSmartDigestQuoting(events, env, resp)
              IN  /\ allEvents' = events
                  /\ topics' = d.topics
                  /\ digestOutcome' = d.outcome
                  /\ modelResponse' = resp
                  /\ requests' = IF d.requested
                                 THEN Append(requests, "inference")
                                 ELSE requests
                  /\ pc' = IF d.outcome = "threw" THEN "catch" ELSE "clustered"
    /\ UNCHANGED <<env, windowVars, ghVars, bsVars, heroTopic, postVars, exitCode>>

\* lines 111-114
SkipGeneration ==
    /\ pc = "clustered"
    /\ Len(topics) = 0
    /\ pc' = "done"
    /\ exitCode' = 0
    /\ UNCHANGED <<env, windowVars, requests, ghVars, bsVars, digestVars, heroTopic,
                   postVars>>

\* the draw moving the chosen topic to the head of the list
PickHeroToFront ==
    /\ pc = "clustered"
    /\ Len(topics) # 0
    /\ \E draw \in Draws :
           LET chosen == pickWeightedTopic(topics, draw)
           IN  /\ heroTopic' = 1
               /\ topics' = <<topics[chosen]>>
                               \o SubSeq(topics, 1, chosen - 1)
                               \o SubSeq(topics, chosen + 1, Len(topics))
    /\ pc' = "picked"
    /\ UNCHANGED <<env, windowVars, requests, ghVars, bsVars, allEvents,
                   digestOutcome, modelResponse, postVars, exitCode>>

\* line 116
PickHero ==
    /\ pc = "clustered"
    /\ Len(topics) # 0
    /\ \E draw \in Draws :
           heroTopic' = pickWeightedTopic(topics, draw)
    /\ pc' = "picked"
    /\ UNCHANGED <<env, windowVars, requests, ghVars, bsVars, digestVars, postVars,
                   exitCode>>

\* generateCatchyTitle (src/lib/schema.ts): the model's headline, or the
\* topic's own title when the request fails
generateCatchyTitle(topic, environment, resp) ==
    IF "MODELS_TOKEN" \in environment /\ resp.kind = "ok"
    THEN sanitizeBrand(trim(resp.content))
    ELSE sanitizeBrand(topic.title)

\* line 117
GenerateTitle ==
    /\ pc = "picked"
    /\ \E resp \in (IF "MODELS_TOKEN" \in env THEN TitleResponses ELSE {NoTitle}) :
           /\ titleResponse' = resp
           /\ catchyTitle' = generateCatchyTitle(topics[heroTopic], env, resp)
    /\ requests' = IF "MODELS_TOKEN" \in env
                   THEN Append(requests, "inference")
                   ELSE requests
    /\ pc' = "titled"
    /\ UNCHANGED <<env, windowVars, ghVars, bsVars, digestVars, heroTopic, postData,
                   validated, files, writes, written, exitCode>>

\* lines 119-128
Assemble ==
    /\ pc = "titled"
    /\ postData' = [title |-> catchyTitle, date |-> nearestMark,
                    type |-> getPostType(nearestMark), topics |-> topics]
    /\ pc' = "assembled"
    /\ UNCHANGED <<env, windowVars, requests, ghVars, bsVars, digestVars, heroTopic,
                   titleResponse, catchyTitle, validated, files, writes, written,
                   exitCode>>

\* line 130: PostSchema.parse returns the post or throws into the catch
Validate ==
    /\ pc = "assembled"
    /\ IF PostSchema(postData)
       THEN validated' = TRUE /\ pc' = "write"
       ELSE validated' = FALSE /\ pc' = "catch"
    /\ UNCHANGED <<env, windowVars, requests, ghVars, bsVars, digestVars, heroTopic,
                   titleResponse, catchyTitle, postData, files, writes, written,
                   exitCode>>

\* lines 132-139: mkdir and writeFile succeed, or one of them throws.
\* writeFile opens the file for writing, which empties it, writes the text and
\* closes it: when it throws, the file is untouched (the open failed) or cut
\* short (a write failed).
WriteFile ==
    /\ pc = "write"
    /\ \E outcome \in {"written", "mkdirFailed", "openFailed", "writeFailed"} :
           IF outcome = "written"
           THEN /\ files' = (slugOf(nearestMark) :> postData) @@ files
                /\ writes' = writes + 1
                /\ written' = Append(written, [mark |-> nearestMark,
                                               slug |-> slugOf(nearestMark)])
                /\ pc' = "done"
                /\ exitCode' = 0
           ELSE /\ pc' = "catch"
                /\ files' = IF outcome = "writeFailed"
                            THEN (slugOf(nearestMark) :> Truncated) @@ files
                            ELSE files
                /\ writes' = IF outcome = "mkdirFailed" THEN writes ELSE writes + 1
                /\ written' = IF outcome = "writeFailed"
                              THEN Append(written, [mark |-> nearestMark,
                                                    slug |-> slugOf(nearestMark)])
                              ELSE written
                /\ UNCHANGED exitCode
    /\ UNCHANGED <<env, windowVars, requests, ghVars, bsVars, digestVars, heroTopic,
                   titleResponse, catchyTitle, postData, validated>>

\* lines 140-143
CriticalFailure ==
    /\ pc = "catch"
    /\ pc' = "done"
    /\ exitCode' = 1
    /\ UNCHANGED <<env, windowVars, requests, ghVars, bsVars, digestVars, heroTopic,
                   postVars>>

----------------------------------------------------------------------------
(* Initial states and specifications *)

Tokens == {"GITHUB_TOKEN", "MODELS_TOKEN"}

NoWindow == nearestMark = undefined /\ startTime = undefined

NoFetch ==
    /\ requests = <<>>
    /\ ghState = "idle" /\ ghResponse = NoAnswer /\ ghEvents = <<>>
    /\ bsState = "idle" /\ bsEvents = <<>> /\ bsAnswer = "none"
    /\ cursor = 0 /\ reachedBeforeStart = FALSE /\ asked = <<>> /\ olderAt = 0
    /\ probes = <<>> /\ completed = <<>>

NoDigest ==
    /\ allEvents = <<>>
    /\ topics = <<>> /\ digestOutcome = "none" /\ modelResponse = NoResponse
    /\ heroTopic = 0

NoPostYet ==
    /\ titleResponse = NoTitle /\ catchyTitle = <<>>
    /\ postData = NoPost /\ validated = FALSE
    /\ files = <<>> /\ writes = 0 /\ written = <<>> /\ exitCode = undefined

\* every minute of the days 1..MaxDay
Instants == (1 * MinutesPerDay)..((MaxDay + 1) * MinutesPerDay - 1)

\* the instants the scheduled runs start at: an hour before each mark, and
\* one in the small hours
RunInstants ==
    {MinutesPerDay + (marks[i] - 1) * MinutesPerHour : i \in 1..Len(marks)}
    \cup {MinutesPerDay + 3 * MinutesPerHour}

\* run() as a whole
Init ==
    /\ pc = "start"
    /\ env \in SUBSET Tokens
    /\ now \in RunInstants
    /\ NoWindow /\ NoFetch /\ NoDigest /\ NoPostYet

Next ==
    \/ SelectWindow
    \/ StartFetchers
    \/ GitHubResponds({nearestMark})
    \/ BlueskyResolves
    \/ BlueskyPage({startTime - 1, nearestMark})
    \/ Cluster(RunResponses)
    \/ SkipGeneration
    \/ PickHero
    \/ GenerateTitle
    \/ Assemble
    \/ Validate
    \/ WriteFile
    \/ CriticalFailure

Spec == Init /\ [][Next]_vars

\* the window selector over every instant
InitSelector ==
    /\ pc = "start"
    /\ env = Tokens
    /\ now \in Instants
    /\ NoWindow /\ NoFetch /\ NoDigest /\ NoPostYet

SpecSelector == InitSelector /\ [][SelectWindow]_vars

\* the part of the state of run() that the window selection and the start of
\* the fetchers leave behind
Started(t) ==
    /\ env = Tokens
    /\ now = t
    /\ nearestMark = selectMark(t)
    /\ startTime = selectMark(t) - windowSize
    /\ requests = <<"github.search", "bluesky.resolveHandle">>
    /\ cursor = 0 /\ reachedBeforeStart = FALSE /\ asked = <<>> /\ olderAt = 0
    /\ probes = <<>> /\ completed = <<>>
    /\ titleResponse = NoTitle /\ catchyTitle = <<>>
    /\ postData = NoPost /\ validated = FALSE
    /\ files = <<>> /\ writes = 0 /\ written = <<>> /\ exitCode = undefined

\* the Bluesky fetcher over every page sequence
InitBluesky ==
    /\ pc = "await"
    /\ \E t \in RunInstants : Started(t)
    /\ ghState = "done" /\ ghResponse = [kind |-> "ok", items |-> <<>>]
    /\ ghEvents = <<>>
    /\ bsState = "resolving" /\ bsEvents = <<>> /\ bsAnswer = "none"
    /\ NoDigest

Stamps == {startTime - 1, startTime, nearestMark, nearestMark + 1}

NextBluesky == BlueskyResolves \/ BlueskyPage(Stamps)

SpecBluesky == InitBluesky /\ [][NextBluesky]_vars

\* every request of the fetcher is answered or fails: an awaited fetch
\* settles, and the function goes on from there
FairBluesky == SpecBluesky /\ WF_vars(NextBluesky)

\* the fetchers of src/lib, which take the window start alone
InitSince ==
    /\ pc = "await"
    /\ \E t \in RunInstants : Started(t)
    /\ ghState = "waiting" /\ ghResponse = NoAnswer /\ ghEvents = <<>>
    /\ bsState = "resolving" /\ bsEvents = <<>> /\ bsAnswer = "none"
    /\ NoDigest

\* closed_at of the items the search may return for closed:since..now
SearchedSince == {t \in {startTime, nearestMark, now} : t <= now}

\* timestamps of the items of the feed, newest posts included
FeedStamps == {startTime - 1, startTime, nearestMark, now}

NextSince ==
    \/ GitHubResponds(SearchedSince)
    \/ BlueskyResolves
    \/ BlueskyFeed(FeedStamps)

SpecSince == InitSince /\ [][NextSince]_vars

\* the Bluesky fetcher of src/lib/events.ts with its reachability probes
ProbedStamps == {startTime - 1, startTime, nearestMark}

NextProbe ==
    \/ BlueskyResolves
    \/ BlueskyCandidates(ProbedStamps)
    \/ ProbeSettles

SpecProbe == InitBluesky /\ [][NextProbe]_vars

\* the run that starts an hour before the first mark of day 1
DailyRun == MinutesPerDay + (marks[1] - 1) * MinutesPerHour

\* the clustering step over every model answer, and the draw after it
InitDigest ==
    /\ pc = "await"
    /\ Started(DailyRun)
    /\ ghState = "done" /\ ghResponse = [kind |-> "ok", items |-> <<nearestMark>>]
    /\ ghEvents = <<GitHubEvent(nearestMark)>>
    /\ bsState = "done" /\ bsEvents = <<>> /\ bsAnswer = "ok"
    /\ NoDigest

NextDigest == Cluster(Responses(MaxTopics)) \/ SkipGeneration \/ PickHero

SpecDigest == InitDigest /\ [][NextDigest]_vars

\* the clustering step of src/lib/events.ts over answers whose topics carry a
\* summary, for a window with one GitHub event and one Bluesky post
InitQuoting ==
    /\ pc = "await"
    /\ \E t \in RunInstants : Started(t)
    /\ ghState = "done" /\ ghResponse = [kind |-> "ok", items |-> <<nearestMark>>]
    /\ ghEvents = <<[source |-> "github", title |-> <<"P", "R", " ", "#", "1">>,
                     timestamp |-> nearestMark]>>
    /\ bsState = "done"
    /\ bsEvents = <<[source |-> "bluesky", title |-> PostTitle,
                     timestamp |-> nearestMark]>>
    /\ bsAnswer = "ok"
    /\ NoDigest

SummarisedResponses ==
    Failures \cup
    {[kind |-> "topics",
      topics |-> [i \in 1..Len(l) |->
                    [title |-> TopicTitles[i], summary |-> l[i][1],
                     relevanceScore |-> l[i][2], sources |-> l[i][3]]]] :
     l \in SeqsUpTo(Summaries \X RunScores \X {<<github>>, <<github, bluesky>>},
                    MaxTopics - 1)}

SpecQuoting == InitQuoting /\ [][ClusterQuoting(SummarisedResponses)]_vars

\* the scores of the weighted draw: the whole points, and every score below
\* two points
PickScores ==
    {n \in MinScore..MaxScore :
        Round(n) = n /\ (n % PerPoint = 0 \/ n < 2 * PerPoint)}

\* the weighted draw over every list of valid topics, sorted or not
PickLists ==
    {[i \in 1..Len(l) |->
        [title |-> TopicTitles[i], relevanceScore |-> l[i], sources |-> <<github>>]] :
     l \in SeqsUpTo(PickScores, MaxTopics) \ {<<>>}}

InitPick ==
    /\ pc = "clustered"
    /\ Started(DailyRun)
    /\ ghState = "done" /\ ghResponse = [kind |-> "ok", items |-> <<nearestMark>>]
    /\ ghEvents = <<GitHubEvent(nearestMark)>>
    /\ bsState = "done" /\ bsEvents = <<>> /\ bsAnswer = "ok"
    /\ allEvents = ghEvents
    /\ topics \in PickLists
    /\ digestOutcome = "ok"
    /\ modelResponse = [kind |-> "topics", topics |-> topics]
    /\ heroTopic = 0

SpecPick == InitPick /\ [][PickHero]_vars

\* getPostType over every instant: the post assembled for a date of any hour
InitPostType ==
    /\ pc = "titled"
    /\ env = Tokens
    /\ nearestMark \in Instants
    /\ now = nearestMark
    /\ startTime = nearestMark - windowSize
    /\ requests = <<"github.search", "bluesky.resolveHandle", "inference", "inference">>
    /\ ghState = "done" /\ ghResponse = [kind |-> "ok", items |-> <<nearestMark>>]
    /\ ghEvents = <<GitHubEvent(nearestMark)>>
    /\ bsState = "done" /\ bsEvents = <<>> /\ bsAnswer = "ok"
    /\ cursor = 0 /\ reachedBeforeStart = FALSE /\ asked = <<>> /\ olderAt = 0
    /\ probes = <<>> /\ completed = <<>>
    /\ allEvents = ghEvents
    /\ topics = <<[title |-> TopicTitles[1], relevanceScore |-> MaxScore,
                   sources |-> <<github>>]>>
    /\ digestOutcome = "ok"
    /\ modelResponse = [kind |-> "topics", topics |-> topics]
    /\ heroTopic = 1
    /\ titleResponse = [kind |-> "ok", content |-> ModelHeadline]
    /\ catchyTitle = ModelHeadline
    /\ postData = NoPost /\ validated = FALSE
    /\ files = <<>> /\ writes = 0 /\ written = <<>> /\ exitCode = undefined

SpecPostType == InitPostType /\ [][Assemble]_vars

\* titles a topic may carry when generateCatchyTitle is called with it
HeroTitles ==
    {<<"t", "1">>, <<"N", "P", "M", "X">>, <<"a", "N", "p", "M", "x", "n", "p", "m", "X">>,
     <<"N", "p", "m", " ", "x">>, <<" ", "n", "p", "m", "X">>}

\* generateCatchyTitle over every title of the topic and every answer
InitTitle ==
    /\ pc = "picked"
    /\ env \in {Tokens, {"GITHUB_TOKEN"}}
    /\ \E t \in RunInstants :
           /\ now = t
           /\ nearestMark = selectMark(t)
           /\ startTime = selectMark(t) - windowSize
    /\ requests = <<"github.search", "bluesky.resolveHandle">>
                     \o (IF "MODELS_TOKEN" \in env THEN <<"inference">> ELSE <<>>)
    /\ ghState = "done" /\ ghResponse = [kind |-> "ok", items |-> <<nearestMark>>]
    /\ ghEvents = <<GitHubEvent(nearestMark)>>
    /\ bsState = "done" /\ bsEvents = <<>> /\ bsAnswer = "ok"
    /\ cursor = 0 /\ reachedBeforeStart = FALSE /\ asked = <<>> /\ olderAt = 0
    /\ probes = <<>> /\ completed = <<>>
    /\ allEvents = ghEvents
    /\ \E title \in HeroTitles :
           topics = <<[title |-> title, relevanceScore |-> MaxScore,
                       sources |-> <<github>>]>>
    /\ digestOutcome = "ok"
    /\ modelResponse = [kind |-> "topics", topics |-> topics]
    /\ heroTopic = 1
    /\ titleResponse = NoTitle /\ catchyTitle = <<>>
    /\ postData = NoPost /\ validated = FALSE
    /\ files = <<>> /\ writes = 0 /\ written = <<>> /\ exitCode = undefined

SpecTitle == InitTitle /\ [][GenerateTitle]_vars

\* lines 117-143: run() from the title request to its end, for a hero topic
\* out of one valid topic
NextPost ==
    \/ GenerateTitle
    \/ Assemble
    \/ Validate
    \/ WriteFile
    \/ CriticalFailure

\* run() goes on: every awaited promise settles, and the statement after it
\* is executed
FairPost == InitTitle /\ [][NextPost]_vars /\ WF_vars(NextPost)

\* the instants of the scheduled runs, and of a second run an hour and a half
\* after each
RerunInstants ==
    RunInstants \cup {t + MinutesPerHour + MinutesPerHour \div 2 : t \in RunInstants}

\* line 146: run() is called again, by a later process, at the instant t; the
\* files of POST_DIR are those the earlier runs left.  The run is taken up to
\* line 116 with one valid topic.
Invoke(t) ==
    /\ pc = "done"
    /\ t > now
    /\ pc' = "picked"
    /\ now' = t
    /\ nearestMark' = selectMark(t)
    /\ startTime' = selectMark(t) - windowSize
    /\ requests' = <<"github.search", "bluesky.resolveHandle", "inference">>
    /\ ghState' = "done"
    /\ ghResponse' = [kind |-> "ok", items |-> <<selectMark(t)>>]
    /\ ghEvents' = <<GitHubEvent(selectMark(t))>>
    /\ bsState' = "done" /\ bsEvents' = <<>> /\ bsAnswer' = "ok"
    /\ cursor' = 0 /\ reachedBeforeStart' = FALSE /\ asked' = <<>> /\ olderAt' = 0
    /\ probes' = <<>> /\ completed' = <<>>
    /\ allEvents' = <<GitHubEvent(selectMark(t))>>
    /\ topics' = <<[title |-> TopicTitles[1], relevanceScore |-> MaxScore,
                    sources |-> <<github>>]>>
    /\ digestOutcome' = "ok"
    /\ modelResponse' = [kind |-> "topics", topics |-> topics']
    /\ heroTopic' = 1
    /\ titleResponse' = NoTitle /\ catchyTitle' = <<>>
    /\ postData' = NoPost /\ validated' = FALSE
    /\ writes' = 0 /\ exitCode' = undefined
    /\ UNCHANGED <<env, files, written>>

\* the first of the runs: both tokens set, one valid topic
InitRuns ==
    /\ InitTitle
    /\ env = Tokens
    /\ topics[1].title = TopicTitles[1]

NextRuns ==
    \/ NextPost
    \/ \E t \in RerunInstants : Invoke(t)

\* runs of the pipeline one after another over the same POST_DIR
SpecRuns == InitRuns /\ [][NextRuns]_vars

----------------------------------------------------------------------------
(* Properties *)

\* C1: every topic generateSmartDigest returns has a relevanceScore between 0
\* and 10 inclusive, whatever scores the model answered and whether or not the
\* topic was boosted.
C1_ScoresWithinBounds ==
    \A i \in 1..Len(topics) :
        /\ topics[i].relevanceScore >= 0
        /\ topics[i].relevanceScore <= 10 * PerPoint

\* a topic answered with the top score and a bluesky source has been returned
C1_BoostedAtTop ==
    /\ pc = "clustered"
    /\ digestOutcome = "ok"
    /\ \E i \in 1..Len(modelResponse.topics) :
           /\ modelResponse.topics[i].relevanceScore = 10 * PerPoint
           /\ hasBluesky(modelResponse.topics[i])

\* C2: the list generateSmartDigest returns is sorted non-increasing by
\* relevanceScore: each topic's score is at least the next one's.
C2_SortedNonIncreasing ==
    \A i \in 1..(Len(topics) - 1) :
        topics[i].relevanceScore >= topics[i + 1].relevanceScore

\* the model answered valid topics in another order than the one returned
C2_AnsweredOutOfOrder ==
    /\ pc = "clustered"
    /\ digestOutcome = "ok"
    /\ Len(topics) = Len(modelResponse.topics)
    /\ \E i \in 1..(Len(topics) - 1) :
           boostedScore(modelResponse.topics[i])
             < boostedScore(modelResponse.topics[i + 1])

AllZero(ts) == \A i \in 1..Len(ts) : ts[i].relevanceScore = 0

Ranked(ts) ==
    \A i \in 1..(Len(ts) - 1) : ts[i].relevanceScore >= ts[i + 1].relevanceScore

\* C3 as stated: for every non-empty topic list and every draw,
\* pickWeightedTopic returns a member of the list; it returns a topic of
\* score zero only when every score is zero, and then it returns the first.
C3_NeverPicksZeroWeight ==
    pc = "picked" =>
        /\ heroTopic \in 1..Len(topics)
        /\ topics[heroTopic].relevanceScore = 0 => AllZero(topics)
        /\ AllZero(topics) => heroTopic = 1

\* C3 as amended: the same for every non-empty topic list that is sorted
\* non-increasing by relevanceScore, as generateSmartDigest returns it.
C3_NeverPicksZeroWeightRanked ==
    (pc = "picked" /\ Ranked(topics)) =>
        /\ heroTopic \in 1..Len(topics)
        /\ topics[heroTopic].relevanceScore = 0 => AllZero(topics)
        /\ AllZero(topics) => heroTopic = 1

\* a draw over a ranked list that ends with a zero-score topic picked a
\* topic after the first
C3_RankedWithZeroTail ==
    /\ pc = "picked"
    /\ Ranked(topics)
    /\ topics[Len(topics)].relevanceScore = 0
    /\ heroTopic > 1

\* every mark of the days around the instants of the model
MarkInstants ==
    {d * 1440 + h * 60 : d \in 0..(MaxDay + 2), h \in {6, 14, 22}}

NearestFutureMark(t) ==
    CHOOSE m \in MarkInstants :
        m >= t /\ \A other \in MarkInstants : other >= t => m <= other

NearestPastMark(t) ==
    CHOOSE m \in MarkInstants :
        m < t /\ \A other \in MarkInstants : other < t => m >= other

\* C4 as stated: at 05:00 UTC the selector chooses the past mark, 22:00 of the
\* previous day, and not the future mark 06:00.
C4_PastMarkAtFive ==
    (pc = "fetch" /\ now % 1440 = 5 * 60) => nearestMark = now - 7 * 60

\* C4 as amended: at 05:00 UTC the selector chooses the future mark, 06:00 of
\* the same day, which is one hour away and so within the 2 hour threshold.
C4_FutureMarkAtFive ==
    (pc = "fetch" /\ now % 1440 = 5 * 60) => nearestMark = now + 60

\* the window has been selected at 05:00
C4_SelectedAtFive == pc = "fetch" /\ now % 1440 = 5 * 60

\* C5: the selector chooses the nearest mark at or after now when it is at
\* most 2 hours away and the nearest mark before now otherwise (06:00 at
\* 05:15); the window starts exactly 8 hours before the selected mark.
C5_SnapRule ==
    pc = "fetch" =>
        /\ nearestMark = IF NearestFutureMark(now) - now <= 2 * 60
                         THEN NearestFutureMark(now)
                         ELSE NearestPastMark(now)
        /\ startTime = nearestMark - 8 * 60
        /\ now % 1440 = 5 * 60 + 15 => nearestMark = now + 45

\* the window has been selected at 05:15, and it ends at 06:00
C5_SelectedAtQuarterPastFive ==
    /\ pc = "fetch"
    /\ now % 1440 = 5 * 60 + 15
    /\ nearestMark % 1440 = 6 * 60

\* C6: with the credential present, fetchGitHubEvents returns an empty list
\* and does not throw when the search request gets a non-OK status or fails
\* with a network error.
C6_GitHubFailureYieldsEmpty ==
    ("GITHUB_TOKEN" \in env /\ ghResponse.kind \in {"nonok", "neterr"}) =>
        /\ ghState = "done"
        /\ ghEvents = <<>>

\* the search request was answered with a non-OK status
C6_SearchNotOk == ghResponse.kind = "nonok" /\ ghState = "done"

\* C7: once a fetched page holds an item from before the window start, no
\* further page is requested, and no item from before the window start is
\* among the returned events.
C7_StopsAtOlderItem ==
    /\ olderAt # 0 => (Len(asked) = olderAt /\ bsState = "done")
    /\ \A i \in 1..Len(bsEvents) : bsEvents[i].timestamp >= startTime

\* the second page held an older item next to items of the window
C7_OlderItemOnSecondPage ==
    /\ olderAt = 2
    /\ bsState = "done"
    /\ Len(bsEvents) > 1

TopicsWellFormed(ts) ==
    \A i \in 1..Len(ts) :
        /\ ts[i].relevanceScore >= 0
        /\ ts[i].relevanceScore <= 10 * PerPoint
        /\ \A j \in 1..Len(ts[i].sources) : ts[i].sources[j].url = WellFormedUrl

\* C8 as stated: validating the assembled post succeeds if and only if every
\* topic's score is within [0,10] and every source URL is well-formed, for
\* every post type the pipeline derives.
C8_ValidIffTopicsWellFormed ==
    (postData # NoPost /\ pc # "assembled") =>
        (validated <=> TopicsWellFormed(postData.topics))

\* C9 as stated: when a required credential is absent the run ends with a
\* non-zero exit and has issued no network request.
C9_MissingCredentialFatalBeforeNetwork ==
    (pc = "done" /\ env # Tokens) => (exitCode = 1 /\ requests = <<>>)

ModelFailed ==
    \/ modelResponse.kind \in {"neterr", "nonok", "badjson", "notopics"}
    \/ modelResponse.kind = "topics" /\ ~TopicsWellFormed(modelResponse.topics)

\* C10: when the model request fails or its answer fails JSON parsing or
\* Topic validation, generateSmartDigest returns an empty list and the run
\* ends cleanly: no title is requested, nothing is written, exit code 0.
C10_ModelFailureEndsCleanly ==
    ModelFailed =>
        /\ topics = <<>>
        /\ pc \in {"clustered", "done"}
        /\ pc = "done" => exitCode = 0
        /\ exitCode # 1
        /\ catchyTitle = <<>>
        /\ Len(SelectSeq(requests, LAMBDA r : r = "inference")) = 1
        /\ writes = 0 /\ files = <<>>

\* a run has ended after the model answered a topic that fails validation
C10_EndedAfterInvalidTopic ==
    /\ ModelFailed
    /\ modelResponse.kind = "topics"
    /\ pc = "done"

\* the file of this run holds the whole post
ArtifactWritten ==
    /\ slugOf(nearestMark) \in DOMAIN files
    /\ files[slugOf(nearestMark)] = postData

\* C11 as stated: an artifact is written only after the assembled post has
\* passed validation, at most one is written per run, and when validation or
\* the write fails the process exits non-zero and no file holds anything but
\* a post that satisfies the schema.
C11_OnlyValidArtifacts ==
    /\ writes <= 1
    /\ files # <<>> => validated
    /\ (pc = "done" /\ postData # NoPost /\ ~ArtifactWritten) => exitCode = 1
    /\ \A slug \in DOMAIN files : PostSchema(files[slug])

\* C12: the post type depends on the UTC hour of the date alone: hours 4 to
\* 11 give daily, 12 to 19 midday, every other hour nightly; so the 06:00
\* mark gives daily, the 14:00 mark midday and the 22:00 mark nightly.
C12_PostTypeByHour ==
    pc = "assembled" =>
        LET hour == (nearestMark % 1440) \div 60
        IN  /\ hour \in 4..11 => postData.type = "daily"
            /\ hour \in 12..19 => postData.type = "midday"
            /\ hour \notin 4..19 => postData.type = "nightly"
            /\ nearestMark % 1440 = 6 * 60 => postData.type = "daily"
            /\ nearestMark % 1440 = 14 * 60 => postData.type = "midday"
            /\ nearestMark % 1440 = 22 * 60 => postData.type = "nightly"

\* a post was assembled for a date in the last minute of the hour 19
C12_AssembledAtEndOfMidday ==
    /\ pc = "assembled"
    /\ nearestMark % 1440 = 19 * 60 + 59
    /\ postData.type = "midday"

WithinWindow(events) ==
    \A i \in 1..Len(events) :
        /\ startTime <= events[i].timestamp
        /\ events[i].timestamp <= nearestMark

\* C13 as stated: every event a fetcher returns for the window
\* [startTime, nearestMark] has a timestamp within it, also when nearestMark
\* lies before now.
C13_EventsWithinWindow == WithinWindow(ghEvents) /\ WithinWindow(bsEvents)

\* what the clustering step returned for the answer of the model
Clustered == generateSmartDigest(allEvents, env, modelResponse).topics

\* C14: after the draw, in the assembled post and in the written artifact the
\* topics are the list the clustering step returned, in its order (descending
\* by relevanceScore), whichever topic the draw chose.
C14_PersistedTopicsAsClustered ==
    /\ digestOutcome # "none" => topics = Clustered
    /\ postData # NoPost => (postData.topics = Clustered /\ Ranked(postData.topics))
    /\ ArtifactWritten => files[slugOf(nearestMark)].topics = Clustered

\* an artifact with two topics of different scores was written after the
\* draw chose the second
C14_WrittenWithSecondAsHero ==
    /\ ArtifactWritten
    /\ heroTopic = 2
    /\ postData.topics[1].relevanceScore > postData.topics[2].relevanceScore

\* C15: if any one topic of the model's answer fails Topic validation,
\* generateSmartDigest returns the empty list, never the topics that were
\* valid.
C15_AllOrNothing ==
    (digestOutcome # "none" /\ ~TopicsWellFormed(modelResponse.topics))
        => topics = <<>>

\* the model answered a valid topic next to an invalid one
C15_OneValidOneInvalid ==
    /\ pc = "clustered"
    /\ Len(modelResponse.topics) > 1
    /\ TopicsWellFormed(<<modelResponse.topics[1]>>)
    /\ ~TopicsWellFormed(<<modelResponse.topics[2]>>)
    /\ topics = <<>>

\* the topic of the model's answer that a returned topic stems from
RawOf(t) ==
    CHOOSE r \in {modelResponse.topics[i] : i \in 1..Len(modelResponse.topics)} :
        sanitizeBrand(r.title) = t.title

\* C16 as stated: the clustering step returns every validated topic with its
\* sources unchanged and its score raised by exactly 1, capped at 10, if and
\* only if its sources contain an entry whose platform is bluesky; otherwise
\* with its score unchanged.
C16_BoostIffBlueskySource ==
    digestOutcome = "ok" =>
        /\ Len(topics) = Len(modelResponse.topics)
        /\ \A i \in 1..Len(topics) :
               LET raw == RawOf(topics[i])
                   raised == raw.relevanceScore + 1 * PerPoint
               IN  /\ topics[i].sources = raw.sources
                   /\ topics[i].relevanceScore =
                        IF \E j \in 1..Len(raw.sources) :
                               raw.sources[j].platform = "bluesky"
                        THEN (IF raised > 10 * PerPoint THEN 10 * PerPoint ELSE raised)
                        ELSE raw.relevanceScore

\* the list is the GitHub events followed by the Bluesky events
GitHubThenBluesky ==
    /\ Len(allEvents) = Len(ghEvents) + Len(bsEvents)
    /\ \A i \in 1..Len(allEvents) :
           allEvents[i] = IF i <= Len(ghEvents) THEN ghEvents[i]
                          ELSE bsEvents[i - Len(ghEvents)]
    /\ \A i \in 1..Len(ghEvents) : allEvents[i].source = "github"
    /\ \A i \in (Len(ghEvents) + 1)..Len(allEvents) : allEvents[i].source = "bluesky"
    /\ ghResponse.kind = "ok" => Len(ghEvents) = Len(ghResponse.items)

Failed(kind) == kind \in {"neterr", "nonok"}

BrandInLowerCase(text) ==
    \A i \in 1..Len(text) :
        BrandAt(text, i) => SubSeq(text, i, i + 3) = <<"n", "p", "m", "x">>

\* the two texts differ at most in the case of their letters
SameLetters(a, b) ==
    /\ Len(a) = Len(b)
    /\ \A i \in 1..Len(a) : Lower(a[i]) = Lower(b[i])

\* the text is the content without the blanks around it, but for the case
\* of its letters
TrimmedFrom(text, content) ==
    \E i \in 1..(Len(content) + 1), j \in 0..Len(content) :
        /\ SameLetters(text, SubSeq(content, i, j))
        /\ \A k \in 1..Len(content) : (k < i \/ k > j) => content[k] = " "
        /\ text # <<>> => (text[1] # " " /\ text[Len(text)] # " ")

\* C18: when the title request fails, generateCatchyTitle returns the hero
\* topic's own title and the run goes on; every title it returns, from the
\* model or from the topic, has every case variant of the project name in
\* lower case and is otherwise the text it was made from.
C18_FallbackAndBrand ==
    pc = "titled" =>
        /\ BrandInLowerCase(catchyTitle)
        /\ titleResponse.kind # "ok" =>
               SameLetters(catchyTitle, topics[heroTopic].title)
        /\ titleResponse.kind = "ok" =>
               TrimmedFrom(catchyTitle, titleResponse.content)

\* the request failed for a topic whose title spells the project name in
\* capitals
C18_FellBackToCapitalisedTitle ==
    /\ pc = "titled"
    /\ titleResponse.kind = "neterr"
    /\ catchyTitle # topics[heroTopic].title

\* C19: in the link-liveness variant the Bluesky fetcher returns exactly the
\* candidates whose probe succeeded, in feed order whatever the order in
\* which the probes completed; a probe that times out, errors or gets a
\* non-success status removes its own event alone and fails nothing.
C19_AliveInFeedOrder ==
    /\ pc # "catch" /\ exitCode # 1
    /\ bsState = "done" =>
           LET kept == {i \in 1..Len(probes) : probes[i].outcome = "ok"}
           IN  /\ Len(bsEvents) = Cardinality(kept)
               /\ \A i \in kept :
                      bsEvents[Cardinality({k \in kept : k <= i})] = probes[i].event
               /\ \A i \in 1..Len(probes) :
                      /\ probes[i].event.timestamp >= startTime
                      /\ probes[i].outcome # "pending"

\* two events were returned although the probe of the second completed before
\* the probe of the first
C19_ReturnedAgainstCompletionOrder ==
    /\ bsState = "done"
    /\ Len(bsEvents) = 2
    /\ bsEvents[1].timestamp # bsEvents[2].timestamp
    /\ \E a, b \in 1..Len(completed) :
           /\ a < b
           /\ completed[a] > completed[b]
           /\ probes[completed[a]].outcome = "ok"
           /\ probes[completed[b]].outcome = "ok"

\* C20: for every instant now, the nine candidates (06:00, 14:00 and 22:00 of
\* the day before, the day and the day after) hold a mark at or after now and
\* a mark before now, so the selector never fails to compute the marks.
C20_MarksAlwaysFound ==
    /\ Len(candidates(now)) = 9
    /\ \E i \in 1..Len(candidates(now)) : candidates(now)[i] >= now
    /\ \E i \in 1..Len(candidates(now)) : candidates(now)[i] < now
    /\ pc # "start" => (pc = "fetch" /\ exitCode # 1)

\* the window was selected at an instant after the last mark of its day, when
\* the only marks at or after it are those of the day after
C20_SelectedAfterLastMark ==
    /\ pc = "fetch"
    /\ now % 1440 > 22 * 60
    /\ futureMark(now) \div 1440 = now \div 1440 + 1

\* C24: for every instant now the selected mark lies after now - 6h and at or
\* before now + 2h, so the window [mark - 8h, mark] starts strictly before now
\* and ends at most 2 hours after now; when now is exactly a mark, that mark
\* itself is selected.
C24_MarkNearNow ==
    pc = "fetch" =>
        /\ now - 6 * 60 < nearestMark
        /\ nearestMark <= now + 2 * 60
        /\ startTime = nearestMark - 8 * 60
        /\ startTime < now
        /\ now % 1440 \in {6 * 60, 14 * 60, 22 * 60} => nearestMark = now

\* the window was selected at 14:00 sharp, and it ends at that instant
C24_SelectedOnTheMark ==
    /\ pc = "fetch"
    /\ now % 1440 = 14 * 60
    /\ nearestMark = now
    /\ startTime = now - 8 * 60

\* no cursor was requested twice
NoCursorTwice ==
    \A i, j \in 1..Len(asked) : i # j => asked[i] # asked[j]

\* the last answer is one the loop ends at: (a) a page with an item older than
\* the window start, (b) an empty page, (c) no cursor, (d) a non-OK status;
\* or the request itself failed
EndOfPaging ==
    \/ olderAt # 0 /\ reachedBeforeStart
    \/ bsAnswer = "empty"
    \/ cursor = 0
    \/ bsAnswer = "nonok"
    \/ bsAnswer = "neterr"

\* C23: the pagination loop of the Bluesky fetcher terminates.  Over every
\* feed of at most MaxPages pages served with a fresh cursor for each next
\* page, the fetcher eventually returns; it has then requested at most
\* MaxPages pages and no cursor twice; a further page is requested only while
\* no answer so far held an item older than the window start, was empty, came
\* without a cursor or was not OK, and the fetcher returns at the first
\* answer that is one of these.
C23_PaginationTerminates ==
    /\ [](/\ NoCursorTwice
          /\ Len(asked) <= MaxPages
          /\ bsState = "paging" =>
                 /\ olderAt = 0 /\ ~reachedBeforeStart
                 /\ bsAnswer = "ok"
                 /\ asked[Len(asked)] = cursor
                 /\ Len(asked) > 1 => cursor # 0
          /\ (bsState = "done" /\ asked # <<>>) =>
                 /\ EndOfPaging
                 /\ olderAt \in {0, Len(asked)})
    /\ <>(bsState = "done")

\* the fetcher returned after the server's last page, every page before it
\* having come with items of the window and a cursor
C23_ReturnedAtLastPage ==
    /\ bsState = "done"
    /\ Len(asked) = MaxPages
    /\ asked[Len(asked)] # 0
    /\ bsAnswer = "ok"
    /\ cursor = 0
    /\ olderAt = 0
    /\ Len(bsEvents) >= MaxPages

\* C22 as stated: for each of the three marks, a run that selects it and
\* obtains at least one valid topic eventually has its post pass
\* PostSchema.parse and reaches the write of its artifact: no mark leads to a
\* validation failure on the type field.
C22_EveryMarkReachesWrite ==
    (pc = "picked") ~> (validated /\ pc = "write")

\* the date of the mark and the type of its hour
KeyOf(mark) ==
    <<mark \div 1440,
      CASE mark % 1440 = 6 * 60 -> "daily"
        [] mark % 1440 = 14 * 60 -> "midday"
        [] mark % 1440 = 22 * 60 -> "nightly">>

\* C21: the key of the artifact is the UTC date of the selected mark and the
\* type of the mark, a function of the mark alone: runs that select the same
\* mark write the same key and the later run overwrites the artifact of the
\* earlier one, and a run never touches the artifact of another mark, distinct
\* marks having distinct keys.
C21_KeyOfMarkAlone ==
    /\ [](\A i \in 1..Len(written) : written[i].slug = KeyOf(written[i].mark))
    /\ [](\A i, j \in 1..Len(written) :
            written[i].mark = written[j].mark <=> written[i].slug = written[j].slug)
    /\ [](DOMAIN files = {written[i].slug : i \in 1..Len(written)})
    /\ [](\A k \in DOMAIN files :
            files[k] # Truncated => KeyOf(files[k].date) = k)
    /\ []((pc = "done" /\ exitCode = 0 /\ postData # NoPost) =>
            (/\ KeyOf(nearestMark) \in DOMAIN files
             /\ files[KeyOf(nearestMark)] = postData))
    /\ [][\A k \in DOMAIN files :
            k # KeyOf(nearestMark) => (k \in DOMAIN files' /\ files'[k] = files[k])]_vars

\* a run has written its post over the artifact of an earlier run of the same
\* mark, next to the artifact of another mark
C21_OverwroteEarlierArtifact ==
    /\ pc = "done" /\ exitCode = 0
    /\ Len(written) >= 3
    /\ written[Len(written)].mark = nearestMark
    /\ \E i \in 1..(Len(written) - 1) :
           /\ written[i].mark = nearestMark
           /\ written[i].slug = written[Len(written)].slug
    /\ \E i \in 1..(Len(written) - 1) : written[i].mark # nearestMark
    /\ files[written[Len(written)].slug] = postData
    /\ Cardinality(DOMAIN files) >= 2

====
